---- MODULE Spec2Model ----
(***************************************************************************)
(* Model of generate_training.py, the deployer training generator: the     *)
(* path filter (is_ignored), the tree scanner (scan_codebase), the context *)
(* assembler (build_context), the credential resolver (get_api_key), the   *)
(* generation orchestrator (generate_documentation) and main.              *)
(*                                                                         *)
(* Text is a sequence of characters, one element each, so that lower(),    *)
(* strip(), splitlines(), replace(), the "in" substring test and           *)
(* Path.suffix are computed the way Python computes them.  A printable     *)
(* ASCII character is written as itself, tab, line feed, carriage return   *)
(* and form feed as "\t", "\n", "\r" and "\f", and every other character   *)
(* by its code point, "U+000B" for the vertical tab or "U+212A" for the    *)
(* Kelvin sign.  The characters of the model are the printable ASCII       *)
(* characters, every character str.strip() removes, every line boundary of *)
(* str.splitlines(), the upper-case letters of Latin-1 with their          *)
(* lower-case forms, and U+0130, U+212A and U+212B, whose lower-case forms *)
(* are "i" followed by U+0307, "k" and U+00E5.                             *)
(* The two fixed pieces of the file delimiter, "--- FILE: " and " ---",     *)
(* are single elements of such a sequence; they start with different       *)
(* characters than every other element used, so the encoding of a Python   *)
(* string is unique.                                                       *)
(***************************************************************************)
EXTENDS Naturals, Sequences, FiniteSets

VARIABLES
    entry,              \* the function the run enters: is_ignored, scan_codebase, build_context, main
    pc,                 \* position in the run
    fs,                 \* the directory tree below repo_root: a set of nodes
    root_exists,        \* repo_root.exists()
    probe,              \* arguments of a direct is_ignored call
    probe_result,       \* its return value
    gitignore_patterns, \* scan_codebase: the rule set
    stack,              \* os.walk: directories still to be yielded
    files_data,         \* scan_codebase: the records collected so far
    read_from,          \* for each record of files_data, the file it was read from
    tested,             \* every path handed to is_ignored during the walk
    walked,             \* every directory os.walk listed
    opened,             \* every file whose read_text was attempted, in order
    context,            \* build_context's result
    environ,            \* os.environ.get("GEMINI_API_KEY"): "unset", "empty" or "set"
    dotenv,             \* the .env outcome in the script's directory and its ancestors
    model_name,         \* args.model
    requests,           \* generate_content calls so far: model and outcome
    documentation,      \* generate_documentation's return value
    output,             \* the output file: whether it was written, and its text
    api_key,            \* generate_documentation: "unresolved" until get_api_key returned
    exit_code           \* process exit status: "running", "0" or "1"

vars == << entry, pc, fs, root_exists, probe, probe_result, gitignore_patterns,
           stack, files_data, read_from, tested, walked, opened, context,
           environ, dotenv, api_key, model_name, requests, documentation,
           output, exit_code >>

----------------------------------------------------------------------------
(* Bounds of the model *)

MaxNodes == 3
MaxMainNodes == 2
MaxProbeDepth == 2
MaxPatterns == 1
MaxRecords == 3
MaxTextLen == 3

----------------------------------------------------------------------------
(* Program constants *)

PRIMARY_MODEL == "gemini-3-pro-preview"
FALLBACK_MODEL == "gemini-2.0-flash-exp"

TEXT_EXTENSIONS ==
    { <<".", "p", "y">>, <<".", "j", "s">>, <<".", "t", "s">>,
      <<".", "j", "s", "x">>, <<".", "t", "s", "x">>, <<".", "g", "o">>,
      <<".", "r", "s">>, <<".", "j", "a", "v", "a">>, <<".", "k", "t">>,
      <<".", "s", "c", "a", "l", "a">>, <<".", "c">>, <<".", "c", "p", "p">>,
      <<".", "h">>, <<".", "h", "p", "p">>, <<".", "c", "s">>,
      <<".", "s", "w", "i", "f", "t">>, <<".", "r", "b">>, <<".", "p", "h", "p">>,
      <<".", "p", "l">>, <<".", "l", "u", "a">>, <<".", "s", "h">>,
      <<".", "b", "a", "s", "h">>, <<".", "z", "s", "h">>, <<".", "p", "s", "1">>,
      <<".", "b", "a", "t">>, <<".", "c", "m", "d">>, <<".", "h", "t", "m", "l">>,
      <<".", "h", "t", "m">>, <<".", "c", "s", "s">>, <<".", "s", "c", "s", "s">>,
      <<".", "s", "a", "s", "s">>, <<".", "l", "e", "s", "s">>, <<".", "j", "s", "o", "n">>,
      <<".", "y", "a", "m", "l">>, <<".", "y", "m", "l">>, <<".", "t", "o", "m", "l">>,
      <<".", "i", "n", "i">>, <<".", "c", "f", "g">>, <<".", "c", "o", "n", "f">>,
      <<".", "x", "m", "l">>, <<".", "x", "s", "l">>, <<".", "x", "s", "l", "t">>,
      <<".", "m", "d">>, <<".", "m", "a", "r", "k", "d", "o", "w", "n">>, <<".", "r", "s", "t">>,
      <<".", "t", "x", "t">>, <<".", "a", "d", "o", "c">>, <<".", "s", "q", "l">>,
      <<".", "g", "r", "a", "p", "h", "q", "l">>, <<".", "g", "q", "l">>, <<".", "d", "o", "c", "k", "e", "r", "f", "i", "l", "e">>,
      <<".", "m", "a", "k", "e", "f", "i", "l", "e">>, <<".", "c", "m", "a", "k", "e">> }
EXCLUDED_FILES ==
    { <<".", "e", "n", "v">>, <<".", "e", "n", "v", ".", "l", "o", "c", "a", "l">>,
      <<".", "e", "n", "v", ".", "p", "r", "o", "d", "u", "c", "t", "i", "o", "n">>, <<".", "e", "n", "v", ".", "d", "e", "v", "e", "l", "o", "p", "m", "e", "n", "t">> }
BUILTIN_IGNORES ==
    { <<"n", "o", "d", "e", "_", "m", "o", "d", "u", "l", "e", "s">>, <<".", "g", "i", "t">>,
      <<"_", "_", "p", "y", "c", "a", "c", "h", "e", "_", "_">>, <<".", "v", "e", "n", "v">>,
      <<"v", "e", "n", "v">>, <<"d", "i", "s", "t">>,
      <<"b", "u", "i", "l", "d">> }
EXTENSIONLESS_NAMES ==
    { <<"d", "o", "c", "k", "e", "r", "f", "i", "l", "e">>, <<"m", "a", "k", "e", "f", "i", "l", "e">> }


----------------------------------------------------------------------------
(* Python string operations, on sequences of characters *)

\* c.lower() for one character c
LowerChar(c) ==
    CASE c = "A" -> << "a" >> [] c = "B" -> << "b" >>
      [] c = "C" -> << "c" >> [] c = "D" -> << "d" >>
      [] c = "E" -> << "e" >> [] c = "F" -> << "f" >>
      [] c = "G" -> << "g" >> [] c = "H" -> << "h" >>
      [] c = "I" -> << "i" >> [] c = "J" -> << "j" >>
      [] c = "K" -> << "k" >> [] c = "L" -> << "l" >>
      [] c = "M" -> << "m" >> [] c = "N" -> << "n" >>
      [] c = "O" -> << "o" >> [] c = "P" -> << "p" >>
      [] c = "Q" -> << "q" >> [] c = "R" -> << "r" >>
      [] c = "S" -> << "s" >> [] c = "T" -> << "t" >>
      [] c = "U" -> << "u" >> [] c = "V" -> << "v" >>
      [] c = "W" -> << "w" >> [] c = "X" -> << "x" >>
      [] c = "Y" -> << "y" >> [] c = "Z" -> << "z" >>
      [] c = "U+00C0" -> << "U+00E0" >> [] c = "U+00C1" -> << "U+00E1" >>
      [] c = "U+00C2" -> << "U+00E2" >> [] c = "U+00C3" -> << "U+00E3" >>
      [] c = "U+00C4" -> << "U+00E4" >> [] c = "U+00C5" -> << "U+00E5" >>
      [] c = "U+00C6" -> << "U+00E6" >> [] c = "U+00C7" -> << "U+00E7" >>
      [] c = "U+00C8" -> << "U+00E8" >> [] c = "U+00C9" -> << "U+00E9" >>
      [] c = "U+00CA" -> << "U+00EA" >> [] c = "U+00CB" -> << "U+00EB" >>
      [] c = "U+00CC" -> << "U+00EC" >> [] c = "U+00CD" -> << "U+00ED" >>
      [] c = "U+00CE" -> << "U+00EE" >> [] c = "U+00CF" -> << "U+00EF" >>
      [] c = "U+00D0" -> << "U+00F0" >> [] c = "U+00D1" -> << "U+00F1" >>
      [] c = "U+00D2" -> << "U+00F2" >> [] c = "U+00D3" -> << "U+00F3" >>
      [] c = "U+00D4" -> << "U+00F4" >> [] c = "U+00D5" -> << "U+00F5" >>
      [] c = "U+00D6" -> << "U+00F6" >> [] c = "U+00D8" -> << "U+00F8" >>
      [] c = "U+00D9" -> << "U+00F9" >> [] c = "U+00DA" -> << "U+00FA" >>
      [] c = "U+00DB" -> << "U+00FB" >> [] c = "U+00DC" -> << "U+00FC" >>
      [] c = "U+00DD" -> << "U+00FD" >> [] c = "U+00DE" -> << "U+00FE" >>
      [] c = "U+0130" -> << "i", "U+0307" >> [] c = "U+212A" -> << "k" >>
      [] c = "U+212B" -> << "U+00E5" >>
      [] OTHER -> << c >>

\* str.lower()
RECURSIVE Lower(_)
Lower(s) ==
    IF s = << >> THEN << >> ELSE LowerChar(Head(s)) \o Lower(Tail(s))

\* str.replace("\\", "/")
ReplaceBackslash(s) == [i \in 1..Len(s) |-> IF s[i] = "\\" THEN "/" ELSE s[i]]

\* sub in s
Contains(sub, s) ==
    /\ Len(sub) <= Len(s)
    /\ \E i \in 0..(Len(s) - Len(sub)) : SubSeq(s, i + 1, i + Len(sub)) = sub

\* s.startswith(prefix)
StartsWith(s, prefix) ==
    Len(prefix) <= Len(s) /\ SubSeq(s, 1, Len(prefix)) = prefix

\* s.endswith(suffix)
EndsWith(s, suffix) ==
    Len(suffix) <= Len(s) /\ SubSeq(s, Len(s) - Len(suffix) + 1, Len(s)) = suffix

\* s.strip(chars): drop the leading and the trailing characters that are in chars
StripChars(s, chars) ==
    LET keep == { i \in 1..Len(s) : s[i] \notin chars }
        first == CHOOSE i \in keep : \A j \in keep : i <= j
        last == CHOOSE i \in keep : \A j \in keep : j <= i
    IN  IF keep = {} THEN << >> ELSE SubSeq(s, first, last)

\* the characters str.strip() removes
Whitespace ==
    { " ", "\t", "\n", "U+000B", "\f", "\r",
      "U+001C", "U+001D", "U+001E", "U+001F", "U+0085", "U+00A0",
      "U+1680", "U+2000", "U+2001", "U+2002", "U+2003", "U+2004",
      "U+2005", "U+2006", "U+2007", "U+2008", "U+2009", "U+200A",
      "U+2028", "U+2029", "U+202F", "U+205F", "U+3000" }

\* s.strip()
Strip(s) == StripChars(s, Whitespace)

\* the line boundaries of str.splitlines(); "\r" followed by "\n" is one boundary
LineBreaks ==
    { "\n", "\r", "U+000B", "\f", "U+001C", "U+001D",
      "U+001E", "U+0085", "U+2028", "U+2029" }

\* s.splitlines(): no empty last line after a final line boundary, no line for ""
RECURSIVE SplitLines(_)
SplitLines(s) ==
    LET breaks == { i \in 1..Len(s) : s[i] \in LineBreaks }
        k == CHOOSE i \in breaks : \A j \in breaks : i <= j
        rest == IF s[k] = "\r" /\ k < Len(s) /\ s[k + 1] = "\n" THEN k + 2 ELSE k + 1
    IN  IF s = << >> THEN << >>
        ELSE IF breaks = {} THEN << s >>
        ELSE << SubSeq(s, 1, k - 1) >> \o SplitLines(SubSeq(s, rest, Len(s)))

\* read_text(encoding="utf-8"): the text, with "\r\n" and "\r" read as "\n"
RECURSIVE ReadText(_)
ReadText(s) ==
    IF s = << >> THEN << >>
    ELSE IF Head(s) = "\r"
    THEN << "\n" >> \o ReadText(IF Len(s) > 1 /\ s[2] = "\n" THEN SubSeq(s, 3, Len(s))
                                                           ELSE Tail(s))
    ELSE << Head(s) >> \o ReadText(Tail(s))

\* "\n".join(parts)
RECURSIVE JoinNewline(_)
JoinNewline(parts) ==
    IF parts = << >> THEN << >>
    ELSE IF Len(parts) = 1 THEN parts[1]
    ELSE parts[1] \o << "\n" >> \o JoinNewline(Tail(parts))

\* str(path): the components joined by the separator
RECURSIVE PathStr(_)
PathStr(path) ==
    IF path = << >> THEN << "." >>
    ELSE IF Len(path) = 1 THEN path[1]
    ELSE path[1] \o << "/" >> \o PathStr(Tail(path))

\* path.name
Name(path) == path[Len(path)]

\* path.suffix: from the last dot of the name, unless that dot is its first or last character
Suffix(path) ==
    LET name == Name(path)
        dots == { i \in 1..Len(name) : name[i] = "." }
        i == CHOOSE d \in dots : \A e \in dots : e <= d
    IN  IF dots = {} THEN << >>
        ELSE IF 1 < i /\ i < Len(name) THEN SubSeq(name, i, Len(name)) ELSE << >>

----------------------------------------------------------------------------
(* Path filter *)

\* str(relative_path).replace("\\", "/")
RelPathStr(path) == ReplaceBackslash(PathStr(path))

is_ignored_no_security(path, patterns) ==
    \E pattern \in patterns :
        LET pattern_clean == StripChars(pattern, { "/" })
        IN  \/ Contains(pattern_clean, RelPathStr(path))
            \/ Name(path) = pattern_clean

is_ignored_by_component(path, patterns) ==
    \/ Name(path) \in EXCLUDED_FILES
    \/ \E pattern \in patterns :
           \E i \in 1..Len(path) : path[i] = StripChars(pattern, { "/" })

\* is_ignored(path, repo_root, gitignore_patterns); path is given relative to repo_root
is_ignored(path, patterns) ==
    LET path_str == RelPathStr(path)
    IN  \/ Name(path) \in EXCLUDED_FILES
        \/ \E pattern \in patterns :
               LET pattern_clean == StripChars(pattern, { "/" })
               IN  \/ Contains(pattern_clean, path_str)
                   \/ Name(path) = pattern_clean
                   \/ EndsWith(pattern_clean, << "/" >>) /\ StartsWith(path_str, pattern_clean)

is_text_file_inverted(path) ==
    \/ Lower(Suffix(path)) \in TEXT_EXTENSIONS
    \/ Lower(Name(path)) \notin EXTENSIONLESS_NAMES

\* the extension test of the scan loop: FALSE makes the loop skip the file
is_text_file(path) ==
    \/ Lower(Suffix(path)) \in TEXT_EXTENSIONS
    \/ Lower(Name(path)) \in EXTENSIONLESS_NAMES

----------------------------------------------------------------------------
(* The directory tree: the input of the scan *)

FileNames ==
    { <<"a", ".", "p", "y">>, <<"B", ".", "P", "Y">>, <<"x", ".", "b", "i", "n">>,
      <<".", "e", "n", "v">>, <<"M", "a", "k", "e", "f", "i", "l", "e">>,
      <<".", "e", "n", "v", "\\", "x", ".", "p", "y">>,
      <<"a", ".", "U+212A", "t">> }

DirNames ==
    { <<"s", "r", "c">>, <<".", "e", "n", "v">>, <<"d", ".", "b", "i", "n">>,
      <<"b", "u", "i", "l", "d", "-", "t", "o", "o", "l", "s">> }

MainFileNames == { <<"a", ".", "p", "y">>, <<"x", ".", "b", "i", "n">> }

MainDirNames == { <<"s", "r", "c">> }

GitignoreName == <<".", "g", "i", "t", "i", "g", "n", "o", "r", "e">>

\* "src/\r\n", "#c\n\n B.PY \n", "/" and "<vertical tab>a.py<form feed>Makefile"
GitignoreTexts ==
    { <<"s", "r", "c", "/", "\r", "\n">>,
      <<"U+000B", "a", ".", "p", "y", "\f", "M", "a", "k", "e", "f", "i", "l", "e">>,
      <<"#", "c", "\n", "\n", " ", "B", ".", "P", "Y", " ", "\n">>,
      <<"/">> }

\* "x\r\n"
FileTexts == { <<"x", "\r", "\n">> }

Dirs(fsys) == { n.path : n \in { m \in fsys : m.kind = "dir" } } \cup { << >> }

Parent(path) == SubSeq(path, 1, Len(path) - 1)

Node(fsys, path) == CHOOSE n \in fsys : n.path = path

Exists(fsys, path) == \E n \in fsys : n.path = path

\* all orders in which scandir can list the set s
Orders(s) ==
    { o \in [1..Cardinality(s) -> s] : \A i, j \in 1..Cardinality(s) : o[i] = o[j] => i = j }

----------------------------------------------------------------------------
(* Ignore-rule loader and tree scanner *)

\* load_gitignore_patterns(repo_root)
load_gitignore_patterns(fsys) ==
    LET gitignore_path == << GitignoreName >>
    IN  IF ~Exists(fsys, gitignore_path) THEN {}
        ELSE LET n == Node(fsys, gitignore_path)
                 lines == SplitLines(ReadText(n.content))
                 stripped == { Strip(lines[i]) : i \in 1..Len(lines) }
             IN  IF n.kind = "file" /\ n.readable
                 THEN { line \in stripped : line # << >> /\ ~StartsWith(line, << "#" >>) }
                 ELSE {}

keep_all_dirs(dirs, patterns) == dirs

\* dirs[:] = [d for d in dirs if not is_ignored(root_path / d, ...)]
keep_dirs(dirs, patterns) ==
    SelectSeq(dirs, LAMBDA d : ~is_ignored(d, patterns))

\* the two tests of the file loop: the file is opened when neither says continue
passes_filter(file_path, patterns) ==
    ~is_ignored(file_path, patterns) /\ is_text_file(file_path)

read_until_failure(fsys, to_open) ==
    LET bad == { i \in 1..Len(to_open) : ~Node(fsys, to_open[i]).readable }
        first == CHOOSE i \in bad : \A j \in bad : i <= j
    IN  IF bad = {} THEN to_open ELSE SubSeq(to_open, 1, first - 1)

\* try: read_text ... except Exception: pass; the files whose read succeeds
read_ok(fsys, to_open) ==
    SelectSeq(to_open, LAMBDA f : Node(fsys, f).readable)

\* the record appended for a file that was read
file_record(fsys, file_path) ==
    [ path |-> RelPathStr(file_path),
      content |-> ReadText(Node(fsys, file_path).content) ]

NodeBound == IF entry = "main" THEN MaxMainNodes ELSE MaxNodes

FileNameChoices == IF entry = "main" THEN MainFileNames ELSE FileNames

DirNameChoices == IF entry = "main" THEN MainDirNames ELSE DirNames

\* the environment creates a file before the tool runs
CreateFile ==
    /\ pc = "setup"
    /\ root_exists
    /\ Cardinality(fs) < NodeBound
    /\ \E d \in Dirs(fs), name \in FileNameChoices, r \in BOOLEAN, c \in FileTexts :
           /\ ~Exists(fs, Append(d, name))
           /\ fs' = fs \cup { [ path |-> Append(d, name), kind |-> "file",
                                readable |-> r, content |-> c ] }
    /\ UNCHANGED << entry, pc, root_exists, probe, probe_result, gitignore_patterns,
                    stack, files_data, read_from, tested, walked, opened, context,
                    environ, dotenv, api_key, model_name, requests, documentation, output,
                    exit_code >>

\* the environment creates the ignore-file at the root
CreateGitignore ==
    /\ pc = "setup"
    /\ root_exists
    /\ Cardinality(fs) < NodeBound
    /\ ~Exists(fs, << GitignoreName >>)
    /\ \E r \in BOOLEAN, c \in GitignoreTexts :
           fs' = fs \cup { [ path |-> << GitignoreName >>, kind |-> "file",
                             readable |-> r, content |-> c ] }
    /\ UNCHANGED << entry, pc, root_exists, probe, probe_result, gitignore_patterns,
                    stack, files_data, read_from, tested, walked, opened, context,
                    environ, dotenv, api_key, model_name, requests, documentation, output,
                    exit_code >>

\* the environment creates a directory
CreateDir ==
    /\ pc = "setup"
    /\ root_exists
    /\ Cardinality(fs) < NodeBound
    /\ \E d \in Dirs(fs), name \in DirNameChoices :
           /\ ~Exists(fs, Append(d, name))
           /\ fs' = fs \cup { [ path |-> Append(d, name), kind |-> "dir",
                                readable |-> TRUE, content |-> << >> ] }
    /\ UNCHANGED << entry, pc, root_exists, probe, probe_result, gitignore_patterns,
                    stack, files_data, read_from, tested, walked, opened, context,
                    environ, dotenv, api_key, model_name, requests, documentation, output,
                    exit_code >>

\* the tool is started on the tree
Launch ==
    /\ pc = "setup"
    /\ pc' = IF entry = "main" THEN "main" ELSE "scan_codebase"
    /\ UNCHANGED << entry, fs, root_exists, probe, probe_result, gitignore_patterns,
                    stack, files_data, read_from, tested, walked, opened, context,
                    environ, dotenv, api_key, model_name, requests, documentation, output,
                    exit_code >>

\* scan_codebase, up to the first os.walk iteration
ScanStart ==
    /\ pc = "scan_codebase"
    /\ files_data' = << >>
    /\ read_from' = << >>
    /\ gitignore_patterns' = load_gitignore_patterns(fs) \cup BUILTIN_IGNORES
    /\ stack' = << << >> >>
    /\ pc' = "walk"
    /\ UNCHANGED << entry, fs, root_exists, probe, probe_result, tested, walked,
                    opened, context, environ, dotenv, api_key, model_name, requests,
                    documentation, output, exit_code >>

\* one iteration of "for root, dirs, files in os.walk(repo_root)"
WalkDir ==
    /\ pc = "walk"
    /\ stack # << >>
    /\ LET root == Head(stack)
           children == { n \in fs : Parent(n.path) = root }
       IN  \E dirs \in Orders({ n.path : n \in { m \in children : m.kind = "dir" } }),
              files \in Orders({ n.path : n \in { m \in children : m.kind = "file" } }) :
               LET to_open == SelectSeq(files, LAMBDA f : passes_filter(f, gitignore_patterns))
                   got == read_ok(fs, to_open)
               IN  /\ walked' = walked \cup { root }
                   /\ tested' = tested \cup { dirs[i] : i \in 1..Len(dirs) }
                                       \cup { files[i] : i \in 1..Len(files) }
                   /\ opened' = opened \o to_open
                   /\ files_data' = files_data \o [ i \in 1..Len(got) |-> file_record(fs, got[i]) ]
                   /\ read_from' = read_from \o got
                   /\ stack' = keep_dirs(dirs, gitignore_patterns) \o Tail(stack)
    /\ UNCHANGED << entry, pc, fs, root_exists, probe, probe_result, gitignore_patterns,
                    context, environ, dotenv, api_key, model_name, requests, documentation,
                    output, exit_code >>

\* os.walk is exhausted: return files_data
ScanReturn ==
    /\ pc = "walk"
    /\ stack = << >>
    /\ pc' = "scanned"
    /\ UNCHANGED << entry, fs, root_exists, probe, probe_result, gitignore_patterns,
                    stack, files_data, read_from, tested, walked, opened, context,
                    environ, dotenv, api_key, model_name, requests, documentation, output,
                    exit_code >>

----------------------------------------------------------------------------
(* A direct call of the path filter *)

ProbeNames ==
    FileNames \cup DirNames
        \cup { <<"b", "u", "i", "l", "d">>, <<"r", "e", "a", "d", "m", "e", ".", "m", "d">>,
               <<".", "e", "n", "v", ".", "p", "r", "o", "d", "u", "c", "t", "i", "o", "n">> }

\* "build/", "build", "/src/", ".py", "/", "uild-t"
PatternChoices ==
    { <<"b", "u", "i", "l", "d", "/">>, <<"b", "u", "i", "l", "d">>,
      <<"/", "s", "r", "c", "/">>, <<".", "p", "y">>, <<"/">>,
      <<"u", "i", "l", "d", "-", "t">> }

ProbePaths == UNION { [1..k -> ProbeNames] : k \in 1..MaxProbeDepth }

ProbePatternSets == { s \in SUBSET PatternChoices : Cardinality(s) <= MaxPatterns }

\* is_ignored is called on the drawn path and rule set
Probe ==
    /\ pc = "is_ignored"
    /\ probe_result' = is_ignored(probe.path, probe.patterns)
    /\ pc' = "returned"
    /\ UNCHANGED << entry, fs, root_exists, probe, gitignore_patterns, stack,
                    files_data, read_from, tested, walked, opened, context, environ,
                    dotenv, api_key, model_name, requests, documentation, output, exit_code >>

----------------------------------------------------------------------------
(* Context assembler *)

DELIM_OPEN == "--- FILE: "

DELIM_CLOSE == " ---"

build_context_unseparated(data) ==
    JoinNewline([ i \in 1..Len(data) |->
        << DELIM_OPEN >> \o data[i].path \o << DELIM_CLOSE >> \o data[i].content \o << "\n" >> ])

\* build_context(files_data)
build_context(data) ==
    JoinNewline([ i \in 1..Len(data) |->
        << DELIM_OPEN >> \o data[i].path \o << DELIM_CLOSE, "\n" >>
            \o data[i].content \o << "\n" >> ])

\* "a", "src/a.py" and "a\nb"
CtxPaths ==
    { <<"a">>, <<"s", "r", "c", "/", "a", ".", "p", "y">>, <<"a", "\n", "b">> }

\* "", "x", "x\n", "\n\nx", "--- FILE: a ---", "x\n--- FILE: a ---\ny",
\* "x --- FILE: a ---" and "--- FILE: a"
CtxContents ==
    { << >>, <<"x">>, <<"x", "\n">>, <<"\n", "\n", "x">>,
      << DELIM_OPEN, "a", DELIM_CLOSE >>,
      <<"x", "\n", DELIM_OPEN, "a", DELIM_CLOSE, "\n", "y">>,
      <<"x", " ", DELIM_OPEN, "a", DELIM_CLOSE >>,
      << DELIM_OPEN, "a" >> }

CtxRecords == [ path : CtxPaths, content : CtxContents ]

CtxInputs == UNION { [1..k -> CtxRecords] : k \in 0..MaxRecords }

\* build_context is called on the drawn records
BuildContext ==
    /\ pc = "build_context"
    /\ context' = build_context(files_data)
    /\ pc' = "returned"
    /\ UNCHANGED << entry, fs, root_exists, probe, probe_result, gitignore_patterns,
                    stack, files_data, read_from, tested, walked, opened, environ,
                    dotenv, api_key, model_name, requests, documentation, output,
                    exit_code >>

----------------------------------------------------------------------------
(* Credential resolver *)

ENV_SEARCH_DEPTH == 6

\* the .env outcome of a directory: "absent" (no file, or reading or parsing it
\* raised), "nomatch" (no GEMINI_API_KEY line), "empty" (the line sets ""),
\* "set" (the line sets a key)
DotenvChoices ==
    { << "absent" >>, << "nomatch", "set" >>, << "absent", "empty", "set" >>,
      << "absent", "absent", "absent", "absent", "absent", "absent", "set" >> }

\* load_env_file(): the value of GEMINI_API_KEY once it returns
load_env_file(env, chain) ==
    LET n == IF Len(chain) < ENV_SEARCH_DEPTH THEN Len(chain) ELSE ENV_SEARCH_DEPTH
        hits == { i \in 1..n : chain[i] \in { "empty", "set" } }
        first == CHOOSE i \in hits : \A j \in hits : i <= j
    IN  IF hits = {} THEN env ELSE chain[first]

key_not_none(value) == value # "unset"

\* "if not api_key" lets the key through
key_usable(value) == value = "set"

\* get_api_key(): the environment value it ends with
get_api_key(env, chain) ==
    IF ~key_usable(env) THEN load_env_file(env, chain) ELSE env

----------------------------------------------------------------------------
(* Generation orchestrator *)

NoModel == "None"

ModelArgs == { NoModel, "", "custom-model" }

ResponseText(n) == UNION { [1..k -> { " ", "a", "U+000B" }] : k \in 0..n }

\* what one generate_content call can do: raise, or return a response whose
\* text is None or a string
Outcomes ==
    { [ kind |-> "error", text |-> << >> ], [ kind |-> "none", text |-> << >> ] }
        \cup { [ kind |-> "text", text |-> t ] : t \in ResponseText(MaxTextLen) }

fallback_first(name) ==
    IF name # NoModel /\ name # "" THEN << name >> ELSE << FALLBACK_MODEL, PRIMARY_MODEL >>

\* models_to_try = [model_name] if model_name else [PRIMARY_MODEL, FALLBACK_MODEL]
models_to_try(name) ==
    IF name # NoModel /\ name # "" THEN << name >> ELSE << PRIMARY_MODEL, FALLBACK_MODEL >>

\* "if response.text": the call did not raise and the text is neither None nor ""
has_text(outcome) == outcome.kind = "text" /\ outcome.text # << >>

\* the loop body after the request reqs[Len(reqs)], and what follows the loop
after_request(reqs, models) ==
    LET last == reqs[Len(reqs)].outcome
    IN  IF has_text(last)
        THEN [ pc |-> "write", documentation |-> Strip(last.text), exit_code |-> "running" ]
        ELSE IF Len(reqs) < Len(models)
        THEN [ pc |-> "request", documentation |-> << >>, exit_code |-> "running" ]
        ELSE [ pc |-> "exit_generation", documentation |-> << >>, exit_code |-> "1" ]

----------------------------------------------------------------------------
(* main *)

\* main: repo_root = Path(args.path).resolve(), and the test that it exists
MainStart ==
    /\ pc = "main"
    /\ IF root_exists
       THEN pc' = "scan_codebase" /\ exit_code' = exit_code
       ELSE pc' = "exit_no_path" /\ exit_code' = "1"
    /\ UNCHANGED << entry, fs, root_exists, probe, probe_result, gitignore_patterns,
                    stack, files_data, read_from, tested, walked, opened, context,
                    environ, dotenv, api_key, model_name, requests, documentation,
                    output >>

\* main: after scan_codebase returned, the emptiness test and build_context
MainAssemble ==
    /\ pc = "scanned"
    /\ entry = "main"
    /\ IF files_data = << >>
       THEN pc' = "exit_no_files" /\ exit_code' = "1" /\ context' = context
       ELSE pc' = "generate_documentation" /\ exit_code' = exit_code
            /\ context' = build_context(files_data)
    /\ UNCHANGED << entry, fs, root_exists, probe, probe_result, gitignore_patterns,
                    stack, files_data, read_from, tested, walked, opened, environ,
                    dotenv, api_key, model_name, requests, documentation, output >>

\* generate_documentation: api_key = get_api_key(), up to the loop
ResolveKey ==
    /\ pc = "generate_documentation"
    /\ environ' = get_api_key(environ, dotenv)
    /\ IF key_usable(environ')
       THEN pc' = "request" /\ api_key' = environ' /\ exit_code' = exit_code
       ELSE pc' = "exit_no_key" /\ api_key' = api_key /\ exit_code' = "1"
    /\ UNCHANGED << entry, fs, root_exists, probe, probe_result, gitignore_patterns,
                    stack, files_data, read_from, tested, walked, opened, context,
                    dotenv, model_name, requests, documentation, output >>

\* generate_documentation: one iteration of "for model in models_to_try"
Request ==
    /\ pc = "request"
    /\ \E outcome \in Outcomes :
           LET models == models_to_try(model_name)
               reqs == Append(requests, [ model |-> models[Len(requests) + 1],
                                          outcome |-> outcome ])
               then == after_request(reqs, models)
           IN  /\ requests' = reqs
               /\ pc' = then.pc
               /\ documentation' = then.documentation
               /\ exit_code' = then.exit_code
    /\ UNCHANGED << entry, fs, root_exists, probe, probe_result, gitignore_patterns,
                    stack, files_data, read_from, tested, walked, opened, context,
                    environ, dotenv, api_key, model_name, output >>

\* main: output_path.write_text(documentation), which nothing guards: it
\* writes the text; or opening the file raises and no file is written; or the
\* file is opened, which empties it, and encoding or writing the text raises,
\* which leaves a part of the text in it.  An exception that is not caught ends
\* the process with status 1.
WriteOutput ==
    /\ pc = "write"
    /\ \/ /\ output' = [ written |-> TRUE, text |-> documentation ]
          /\ pc' = "done"
          /\ exit_code' = "0"
       \/ /\ output' = output
          /\ pc' = "write_raised"
          /\ exit_code' = "1"
       \/ /\ \E k \in 0..Len(documentation) :
                 output' = [ written |-> TRUE, text |-> SubSeq(documentation, 1, k) ]
          /\ pc' = "write_raised"
          /\ exit_code' = "1"
    /\ UNCHANGED << entry, fs, root_exists, probe, probe_result, gitignore_patterns,
                    stack, files_data, read_from, tested, walked, opened, context,
                    environ, dotenv, api_key, model_name, requests, documentation >>

----------------------------------------------------------------------------
(* Specifications *)


----------------------------------------------------------------------------
(* Specifications *)

\* is_ignored is called on a drawn path and rule set
InitFilter ==
    /\ entry = "is_ignored"
    /\ pc = "is_ignored"
    /\ fs = {}
    /\ root_exists = TRUE
    /\ probe \in [ path : ProbePaths, patterns : ProbePatternSets ]
    /\ probe_result = FALSE
    /\ gitignore_patterns = {}
    /\ stack = << >>
    /\ files_data = << >>
    /\ read_from = << >>
    /\ tested = {}
    /\ walked = {}
    /\ opened = << >>
    /\ context = << >>
    /\ environ = "set"
    /\ dotenv = << >>
    /\ api_key = "unresolved"
    /\ model_name = NoModel
    /\ requests = << >>
    /\ documentation = << >>
    /\ output = [ written |-> FALSE, text |-> << >> ]
    /\ exit_code = "running"

\* scan_codebase is called on a tree the environment builds
InitScan ==
    /\ entry = "scan_codebase"
    /\ pc = "setup"
    /\ fs = {}
    /\ root_exists = TRUE
    /\ probe = [ path |-> << << >> >>, patterns |-> {} ]
    /\ probe_result = FALSE
    /\ gitignore_patterns = {}
    /\ stack = << >>
    /\ files_data = << >>
    /\ read_from = << >>
    /\ tested = {}
    /\ walked = {}
    /\ opened = << >>
    /\ context = << >>
    /\ environ = "set"
    /\ dotenv = << >>
    /\ api_key = "unresolved"
    /\ model_name = NoModel
    /\ requests = << >>
    /\ documentation = << >>
    /\ output = [ written |-> FALSE, text |-> << >> ]
    /\ exit_code = "running"

\* build_context is called on drawn records
InitCtx ==
    /\ entry = "build_context"
    /\ pc = "build_context"
    /\ fs = {}
    /\ root_exists = TRUE
    /\ probe = [ path |-> << << >> >>, patterns |-> {} ]
    /\ probe_result = FALSE
    /\ gitignore_patterns = {}
    /\ stack = << >>
    /\ files_data \in CtxInputs
    /\ read_from = << >>
    /\ tested = {}
    /\ walked = {}
    /\ opened = << >>
    /\ context = << >>
    /\ environ = "set"
    /\ dotenv = << >>
    /\ api_key = "unresolved"
    /\ model_name = NoModel
    /\ requests = << >>
    /\ documentation = << >>
    /\ output = [ written |-> FALSE, text |-> << >> ]
    /\ exit_code = "running"

\* the tool is run: main, on a tree the environment builds
Init ==
    /\ entry = "main"
    /\ pc = "setup"
    /\ fs = {}
    /\ root_exists \in BOOLEAN
    /\ probe = [ path |-> << << >> >>, patterns |-> {} ]
    /\ probe_result = FALSE
    /\ gitignore_patterns = {}
    /\ stack = << >>
    /\ files_data = << >>
    /\ read_from = << >>
    /\ tested = {}
    /\ walked = {}
    /\ opened = << >>
    /\ context = << >>
    /\ environ \in { "unset", "empty", "set" }
    /\ dotenv \in DotenvChoices
    /\ api_key = "unresolved"
    /\ model_name \in ModelArgs
    /\ requests = << >>
    /\ documentation = << >>
    /\ output = [ written |-> FALSE, text |-> << >> ]
    /\ exit_code = "running"

NextScan ==
    \/ Probe
    \/ CreateFile
    \/ CreateGitignore
    \/ CreateDir
    \/ Launch
    \/ ScanStart
    \/ WalkDir
    \/ ScanReturn

Next ==
    \/ CreateFile
    \/ CreateDir
    \/ Launch
    \/ MainStart
    \/ ScanStart
    \/ WalkDir
    \/ ScanReturn
    \/ MainAssemble
    \/ ResolveKey
    \/ Request
    \/ WriteOutput

\* the path filter called directly, and scan_codebase called on a tree
SpecScan == (InitFilter \/ InitScan) /\ [][NextScan]_vars

\* build_context called on records
SpecCtx == InitCtx /\ [][BuildContext]_vars

\* a run of the tool
Spec == Init /\ [][Next]_vars

----------------------------------------------------------------------------
(* Properties of the path filter and the tree scanner, under SpecScan *)

Scanning == entry = "scan_codebase" /\ pc \in { "walk", "scanned" }

Probed == entry = "is_ignored" /\ pc = "returned"

SensitiveNames ==
    { <<".", "e", "n", "v">>, <<".", "e", "n", "v", ".", "l", "o", "c", "a", "l">>,
      <<".", "e", "n", "v", ".", "p", "r", "o", "d", "u", "c", "t", "i", "o", "n">>,
      <<".", "e", "n", "v", ".", "d", "e", "v", "e", "l", "o", "p", "m", "e", "n", "t">> }

\* the part of a record's path after its last "/"
FinalComponent(path_str) ==
    LET slashes == { i \in 1..Len(path_str) : path_str[i] = "/" }
        last == CHOOSE i \in slashes : \A j \in slashes : j <= i
    IN  IF slashes = {} THEN path_str ELSE SubSeq(path_str, last + 1, Len(path_str))

\* p is strictly below the directory d
Below(p, d) == Len(d) < Len(p) /\ SubSeq(p, 1, Len(d)) = d

SeqRange(s) == { s[i] : i \in 1..Len(s) }

\* C1: is_ignored is true of every path whose final name component is one of
\* .env, .env.local, .env.production, .env.development, whatever the rule set
\* (the empty one included), and no record of the scan has such a final
\* component.
C1_SensitiveNamesExcluded ==
    /\ Probed /\ Name(probe.path) \in SensitiveNames => probe_result
    /\ \A i \in 1..Len(files_data) :
           FinalComponent(files_data[i].path) \notin SensitiveNames

C1_Witness ==
    /\ Probed
    /\ Len(probe.path) = 2
    /\ Name(probe.path) \in SensitiveNames
    /\ probe.patterns = {}
    /\ probe_result

BuildSlash == <<"b", "u", "i", "l", "d", "/">>

BuildToolsReadme ==
    << <<"b", "u", "i", "l", "d", "-", "t", "o", "o", "l", "s">>,
       <<"r", "e", "a", "d", "m", "e", ".", "m", "d">> >>

\* C9: a path is excluded whenever a pattern, trimmed of "/", occurs anywhere
\* in its forward-slash relative form; with the pattern "build/" every path
\* starting with "build/" is excluded, and so is build-tools/readme.md.
C9_SubstringMatch ==
    Probed =>
        /\ \A pattern \in probe.patterns :
               Contains(StripChars(pattern, { "/" }), RelPathStr(probe.path)) => probe_result
        /\ BuildSlash \in probe.patterns =>
               /\ StartsWith(RelPathStr(probe.path), BuildSlash) => probe_result
               /\ probe.path = BuildToolsReadme => probe_result

C9_Witness ==
    /\ Probed
    /\ probe.path = BuildToolsReadme
    /\ probe.patterns = { BuildSlash }
    /\ probe_result

\* C2: for every directory the path filter excludes, no record of the finished
\* scan has a path that begins with the directory's relative path and "/", and
\* nothing below the directory is listed, tested by the filter or opened.
C2_PrunedSubtreesAbsent ==
    Scanning =>
        \A d \in { n \in fs : n.kind = "dir" /\ is_ignored(n.path, gitignore_patterns) } :
            /\ pc = "scanned" =>
                   \A i \in 1..Len(files_data) :
                       ~StartsWith(files_data[i].path, RelPathStr(d.path) \o << "/" >>)
            /\ \A p \in tested \cup walked \cup SeqRange(opened) : ~Below(p, d.path)

\* the second half of C2 alone: nothing below an excluded directory is visited
PrunedSubtreesNotVisited ==
    Scanning =>
        \A d \in { n \in fs : n.kind = "dir" /\ is_ignored(n.path, gitignore_patterns) } :
            \A p \in tested \cup walked \cup SeqRange(opened) \cup SeqRange(read_from) :
                ~Below(p, d.path)

\* the files of the tree that the walk reaches: no directory above them is excluded
Reached(path) ==
    \A k \in 1..(Len(path) - 1) : ~is_ignored(SubSeq(path, 1, k), gitignore_patterns)

\* a file the filter lets through, by the rule of the spec
NotExcluded(path) ==
    /\ ~is_ignored(path, gitignore_patterns)
    /\ \/ Lower(Suffix(path)) \in TEXT_EXTENSIONS
       \/ Lower(Name(path)) \in { <<"d", "o", "c", "k", "e", "r", "f", "i", "l", "e">>,
                                  <<"m", "a", "k", "e", "f", "i", "l", "e">> }

FileNodes == { n \in fs : n.kind = "file" }

\* C7: a file that cannot be read is skipped and the scan goes on: the records
\* are those of the opened files whose read succeeded, one each, in the order
\* the walk opened them, and the finished scan has a record for every file that
\* is not excluded and is readable.
C7_UnreadableFilesSkipped ==
    Scanning =>
        /\ read_from = SelectSeq(opened, LAMBDA f : Node(fs, f).readable)
        /\ Len(files_data) = Len(read_from)
        /\ \A i \in 1..Len(files_data) :
               /\ files_data[i].path = RelPathStr(read_from[i])
               /\ files_data[i].content = ReadText(Node(fs, read_from[i]).content)
        /\ \A i, j \in 1..Len(read_from) : read_from[i] = read_from[j] => i = j
        /\ pc = "scanned" =>
               SeqRange(read_from) =
                   { n.path : n \in { m \in FileNodes :
                         Reached(m.path) /\ NotExcluded(m.path) /\ m.readable } }

C7_Witness ==
    /\ entry = "scan_codebase"
    /\ pc = "scanned"
    /\ Len(opened) = 3
    /\ ~Node(fs, opened[1]).readable
    /\ Node(fs, opened[2]).readable
    /\ ~Node(fs, opened[3]).readable
    /\ Len(files_data) = 1

\* C8: a file whose lower-cased extension is not in the allowlist and whose
\* lower-cased name is neither dockerfile nor makefile is never opened and gets
\* no record; the rule is for files only: a directory with such a name is
\* listed by the walk unless is_ignored excludes it or a directory above it.
C8_ExtensionAllowlist ==
    Scanning =>
        /\ \A n \in FileNodes :
               /\ Lower(Suffix(n.path)) \notin TEXT_EXTENSIONS
               /\ Lower(Name(n.path)) \notin { <<"d", "o", "c", "k", "e", "r", "f", "i", "l", "e">>,
                                               <<"m", "a", "k", "e", "f", "i", "l", "e">> }
               => n.path \notin SeqRange(opened) \cup SeqRange(read_from)
        /\ pc = "scanned" =>
               \A n \in fs \ FileNodes :
                   Reached(n.path) /\ ~is_ignored(n.path, gitignore_patterns)
                       => n.path \in walked

C8_Witness ==
    /\ entry = "scan_codebase"
    /\ pc = "scanned"
    /\ << <<"x", ".", "b", "i", "n">> >> \in tested
    /\ << <<"d", ".", "b", "i", "n">> >> \in walked
    /\ read_from = << << <<"d", ".", "b", "i", "n">>, <<"B", ".", "P", "Y">> >> >>

----------------------------------------------------------------------------
(* Properties of the context assembler, under SpecCtx *)

\* s.split("\n")
RECURSIVE SplitNewline(_)
SplitNewline(s) ==
    IF \A i \in 1..Len(s) : s[i] # "\n"
    THEN << s >>
    ELSE LET k == CHOOSE i \in 1..Len(s) :
                      s[i] = "\n" /\ \A j \in 1..(i - 1) : s[j] # "\n"
         IN  << SubSeq(s, 1, k - 1) >> \o SplitNewline(SubSeq(s, k + 1, Len(s)))

\* a line made of "--- FILE: ", a path and " ---"
IsDelimiterLine(line) ==
    Len(line) >= 2 /\ line[1] = DELIM_OPEN /\ line[Len(line)] = DELIM_CLOSE

DelimitersFrom(lines, i) == { j \in i..Len(lines) : IsDelimiterLine(lines[j]) }

\* the records read back from the lines of a context, from line i on: a record
\* starts at each delimiter line, its path is what the delimiter names, and its
\* content is the lines up to the next delimiter line, less the separator line
RECURSIVE SplitFrom(_, _)
SplitFrom(lines, i) ==
    IF DelimitersFrom(lines, i) = {} THEN << >>
    ELSE LET h == CHOOSE j \in DelimitersFrom(lines, i) :
                      \A k \in DelimitersFrom(lines, i) : j <= k
             later == DelimitersFrom(lines, h + 1)
             next == IF later = {} THEN Len(lines) + 1
                     ELSE CHOOSE j \in later : \A k \in later : j <= k
             body == SubSeq(lines, h + 1, next - 1)
             content == IF body = << >> THEN << >>
                        ELSE JoinNewline(SubSeq(body, 1, Len(body) - 1))
         IN  << [ path |-> SubSeq(lines[h], 2, Len(lines[h]) - 1), content |-> content ] >>
                 \o SplitFrom(lines, next)

\* splitting a context on the delimiter pattern
SplitContext(blob) == SplitFrom(SplitNewline(blob), 1)

\* no path has a line break and no content has a line of the delimiter's form
PlainRecords(data) ==
    \A i \in 1..Len(data) :
        /\ "\n" \notin SeqRange(data[i].path)
        /\ \A k \in 1..Len(SplitNewline(data[i].content)) :
               ~IsDelimiterLine(SplitNewline(data[i].content)[k])

Assembled == entry = "build_context" /\ pc = "returned"

\* C5 as stated: splitting build_context's output on the delimiter pattern gives
\* back the path/content pairs, in order, for every sequence of records.
C5_RoundTripAnyRecords ==
    Assembled => SplitContext(context) = files_data

\* C5 as amended: splitting build_context's output on the delimiter lines gives
\* back the path/content pairs, in order, when no path contains a line break
\* and no content contains a line of the form "--- FILE: x ---".
C5_RoundTripPlainRecords ==
    Assembled /\ PlainRecords(files_data) => SplitContext(context) = files_data

C5_Witness ==
    /\ Assembled
    /\ PlainRecords(files_data)
    /\ Len(files_data) = 2
    /\ files_data[1].content = << >>
    /\ files_data[2].content = <<"x", " ", DELIM_OPEN, "a", DELIM_CLOSE >>
    /\ SplitContext(context) = files_data

----------------------------------------------------------------------------
(* Properties of the generation orchestrator and of main, under Spec *)

\* the candidate list, by the rule of the spec
Candidates ==
    IF model_name \in { NoModel, "" }
    THEN << "gemini-3-pro-preview", "gemini-2.0-flash-exp" >>
    ELSE << model_name >>

\* the call returned a response whose text is a non-empty string
NonEmptyText(outcome) == outcome.kind = "text" /\ Len(outcome.text) > 0

\* generate_documentation has returned
Returned == pc \in { "write", "done", "write_raised" }

\* requests go to the candidates in list order, one each, and none follows a
\* request that was answered with non-empty text
OrderedShortCircuit ==
    /\ Len(requests) <= Len(Candidates)
    /\ \A i \in 1..Len(requests) : requests[i].model = Candidates[i]
    /\ \A i \in 1..(Len(requests) - 1) : ~NonEmptyText(requests[i].outcome)
    /\ Returned => requests # << >> /\ NonEmptyText(requests[Len(requests)].outcome)

\* C3 as stated: requests are issued in list order, at most one for each
\* candidate and none after the first non-empty text, and the text returned is
\* the response of that candidate.
C3_ReturnsTheResponse ==
    /\ OrderedShortCircuit
    /\ Returned => documentation = requests[Len(requests)].outcome.text

\* C3 as amended: requests are issued in list order, at most one for each
\* candidate and none after the first non-empty text, and the text returned is
\* the response of that candidate with its leading and trailing whitespace
\* removed.
C3_ReturnsTheStrippedResponse ==
    /\ OrderedShortCircuit
    /\ Returned => documentation = Strip(requests[Len(requests)].outcome.text)

C3_Witness ==
    /\ pc = "done"
    /\ model_name = NoModel
    /\ Len(requests) = 2
    /\ requests[1].model = "gemini-3-pro-preview"
    /\ requests[1].outcome.kind = "error"
    /\ requests[2].model = "gemini-2.0-flash-exp"
    /\ requests[2].outcome.text = << "a", " " >>
    /\ documentation = << "a" >>

\* every candidate was asked and none answered with non-empty text
AllCandidatesFailed ==
    /\ Len(requests) = Len(Candidates)
    /\ \A i \in 1..Len(requests) : ~NonEmptyText(requests[i].outcome)

\* C4: when every candidate fails the run ends with exit status 1 and the
\* output file is not written; the output file is written only once
\* generate_documentation has returned text; and no run ends with a partial or
\* degraded document: an output file that exists holds the whole text
\* returned, and that text is not empty.
C4_NoPartialOrDegradedOutput ==
    /\ AllCandidatesFailed => pc = "exit_generation" /\ exit_code = "1" /\ ~output.written
    /\ output.written =>
           /\ requests # << >>
           /\ requests[Len(requests)].outcome.kind = "text"
           /\ output.text = documentation
           /\ output.text # << >>

\* the order of the steps alone: when every candidate fails the
\* run ends with exit status 1 and no output file, and the file is written only
\* after a candidate has answered with non-empty text
NoOutputWithoutGeneration ==
    /\ AllCandidatesFailed => pc = "exit_generation" /\ exit_code = "1" /\ ~output.written
    /\ output.written =>
           /\ pc \in { "done", "write_raised" }
           /\ requests # << >>
           /\ NonEmptyText(requests[Len(requests)].outcome)

\* C10: whenever generate_documentation returns, the text it returns is
\* non-empty, whatever the candidates answer.
C10_ReturnedTextNonEmpty ==
    Returned => documentation # << >>

\* C6 as stated: the credential is resolved before the tree scan begins, and
\* a run with a missing credential ends before any file of the root is read.
C6_CredentialBeforeScan ==
    /\ pc \in { "walk", "scanned" } => api_key = "set"
    /\ pc = "exit_no_key" => walked = {} /\ opened = << >>

\* C6 as amended: the steps occur in the order load ignore rules, scan,
\* assemble context, resolve credential, generate: the credential is resolved,
\* or the run ends for want of it, only after the scan has finished and the
\* context is assembled, and before any request; a run with a missing
\* credential has read the files of the root and ends with exit status 1, no
\* request sent and no output written.
C6_CredentialAfterAssembly ==
    /\ walked # {} => BUILTIN_IGNORES \subseteq gitignore_patterns
    /\ pc \in { "setup", "main", "scan_codebase", "walk", "scanned" } =>
           context = << >> /\ api_key = "unresolved" /\ requests = << >>
    /\ context # << >> => stack = << >> /\ files_data # << >> /\ << >> \in walked
    /\ api_key = "set" \/ pc = "exit_no_key" =>
           /\ stack = << >>
           /\ opened # << >>
           /\ Len(context) > 0
    /\ requests # << >> => api_key = "set"
    /\ pc = "exit_no_key" =>
           /\ api_key = "unresolved"
           /\ requests = << >>
           /\ ~output.written
           /\ exit_code = "1"

C6_Witness ==
    /\ pc = "exit_no_key"
    /\ environ = "unset"
    /\ Len(opened) = 1
    /\ Len(context) > 0
    /\ requests = << >>

====
